---- MODULE Spec2Model ----
(***************************************************************************)
(* Model of the Obsidian <-> Google Drive sync plugin (main.ts, the file   *)
(* src/unnamed/part_000).                                                  *)
(*                                                                         *)
(* The plugin is a set of async functions running on one JavaScript event  *)
(* loop.  Every `await` of a network call is a suspension point: a task    *)
(* sends a request, is suspended, and its continuation runs atomically     *)
(* (up to the next network await) when the response arrives.  The model    *)
(* has one action per kind of trigger and one action, Respond, in which     *)
(* the remote answers the outstanding request of one task and that task's  *)
(* continuation runs to its next request or to its end.  The remote        *)
(* executes a request at the moment it answers it.                         *)
(*                                                                         *)
(* The plugin's functions are written as operators from a state record to  *)
(* a state record (the record holds the value of every variable), so that  *)
(* sequential code composes as function composition.                       *)
(***************************************************************************)
EXTENDS Integers, Sequences, FiniteSets, TLC

\* ------------------------------------------------------------------ bounds
MaxPaths == 2
MaxContent == 2
MaxFiles == 2
MaxIds == 3
MaxTasks == 2
MaxFolderNames == 2
MaxTokens == 3
MaxSends == 3
MaxOps == 2
MaxLocalChanges == 1
MaxFaults == 2
MaxRefreshTokens == 2
MaxIntervals == 2
MaxTimers == 3
MaxUi == 2
MaxTimerUi == 3

Paths == 1..MaxPaths
Contents == 1..MaxContent
Files == 1..MaxFiles
Ids == 1..MaxIds
Tasks == 1..MaxTasks
FolderNames == 1..MaxFolderNames
RefreshTokens == 1..MaxRefreshTokens
Intervals == 1..MaxIntervals
TimerIds == 1..MaxTimers

\* ------------------------------------------------------- program constants
\* `null` (accessToken, visibleFolderId, syncInterval) and "no value"
Null == 0
\* the parent 'appDataFolder' of the hidden namespace
AppDataFolder == -1
\* the parent of a folder created without `parents`: the root of the drive
DriveRoot == -2
\* the status of an expired access token
Unauthorized == 401
\* the statuses the remote may answer with: success, expired token, any other failure
Statuses == {200, Unauthorized, 500}
\* a request on an id that does not exist
NotFound == 404
\* Response.ok
ResponseOk(status) == status \in 200..299

VARIABLES
    settings,           \* this.settings (the fields the sync engine reads)
    saved,              \* the data file of the plugin: what saveData() wrote last
    syncInterval,       \* this.syncInterval: the handle of the timer of auto sync
    timers,             \* the timers of setInterval that are active
    timerIds,           \* how many timers setInterval has installed
    pending,            \* the handlers of the settings tab awaiting saveSettings()
    ui,                 \* history: the uses of the settings tab
    granted,            \* history: the last answer of the token endpoint to a code
    accessToken,        \* this.accessToken
    visibleFolderId,    \* this.visibleFolderId
    vault,              \* the TFile objects of the local vault
    drive,              \* the remote store: id -> entry
    tasks,              \* the in-flight async operations
    issued,             \* how many access tokens the token endpoint has issued
    loaded,             \* onload() has completed
    prev, last,         \* history: the two operations completed last
    ops, changes,       \* history: operations started, changes made by the user
    faults,             \* history: responses that were not 2xx
    folderCalls,        \* history: create-container calls made, per folder name
    folderMade,         \* history: create-container calls answered 2xx, per folder name
    env                 \* the bounds of this behaviour: tasks in flight, faults

vars == <<settings, saved, syncInterval, timers, timerIds, pending, ui, granted, accessToken, visibleFolderId, vault, drive, tasks, issued,
          loaded, prev, last, ops, changes, faults, folderCalls, folderMade, env>>

\* The state as one record: the plugin's functions map a state to a state.
State ==
    [settings |-> settings, saved |-> saved, syncInterval |-> syncInterval,
     timers |-> timers, timerIds |-> timerIds, pending |-> pending, ui |-> ui,
     granted |-> granted,
     accessToken |-> accessToken,
     visibleFolderId |-> visibleFolderId, vault |-> vault, drive |-> drive,
     tasks |-> tasks, issued |-> issued, loaded |-> loaded,
     prev |-> prev, last |-> last, ops |-> ops, changes |-> changes,
     faults |-> faults, folderCalls |-> folderCalls, folderMade |-> folderMade,
     env |-> env]

Becomes(s) ==
    /\ settings' = s.settings
    /\ saved' = s.saved
    /\ syncInterval' = s.syncInterval
    /\ timers' = s.timers
    /\ timerIds' = s.timerIds
    /\ pending' = s.pending
    /\ ui' = s.ui
    /\ granted' = s.granted
    /\ accessToken' = s.accessToken
    /\ visibleFolderId' = s.visibleFolderId
    /\ vault' = s.vault
    /\ drive' = s.drive
    /\ tasks' = s.tasks
    /\ issued' = s.issued
    /\ loaded' = s.loaded
    /\ prev' = s.prev
    /\ last' = s.last
    /\ ops' = s.ops
    /\ changes' = s.changes
    /\ faults' = s.faults
    /\ folderCalls' = s.folderCalls
    /\ folderMade' = s.folderMade
    /\ env' = s.env

\* what the token endpoint answered to a code: tokens.refresh_token, tokens.access_token
Grant(status, refreshToken, token) ==
    [status |-> status, refreshToken |-> refreshToken, accessToken |-> token]
NoGrant == Grant(Null, Null, Null)

\* ------------------------------------------------------------ the remote
\* An id of the drive holds nothing yet ("none"), a folder, a file, or was
\* deleted ("gone": ids are never reused).
NoEntry == [kind |-> "none", name |-> Null, parent |-> Null, content |-> Null]
GoneEntry == [kind |-> "gone", name |-> Null, parent |-> Null, content |-> Null]
FileEntry(name, parent, content) ==
    [kind |-> "file", name |-> name, parent |-> parent, content |-> content]
FolderEntry(name) ==
    [kind |-> "folder", name |-> name, parent |-> DriveRoot, content |-> Null]

\* the id the remote gives to the next entry it creates (Null: the model's ids are used up)
NextId(D) ==
    IF \E i \in Ids : D[i].kind = "none"
    THEN CHOOSE i \in Ids : D[i].kind = "none" /\ \A j \in Ids : D[j].kind = "none" => i <= j
    ELSE Null

\* GET files?q=name='<folderName>' and mimeType='...folder' and trashed=false
ListFolders(D, folderName) ==
    {i \in Ids : D[i].kind = "folder" /\ D[i].name = folderName}

\* GET files?q=parents in '<parent>' and mimeType != '...folder' and trashed=false [&spaces=]
\* The files of the hidden namespace are listed only when spaces=appDataFolder.
ListChildren(D, parent, spaces) ==
    {i \in Ids : /\ D[i].kind = "file"
                 /\ D[i].parent = parent
                 /\ (parent = AppDataFolder) = (spaces = "appDataFolder")}

\* GET files?q=name='<name>' and parents in '<parent>' [&spaces=]
ListByName(D, name, parent, spaces) ==
    {i \in ListChildren(D, parent, spaces) : D[i].name = name}

\* all the orders in which a listing may come back
RECURSIVE Orderings(_)
Orderings(S) ==
    IF S = {} THEN {<<>>}
    ELSE UNION {{<<x>> \o o : o \in Orderings(S \ {x})} : x \in S}

\* ------------------------------------------------------------- requests
\* A request in flight: what it asks (kind), and its arguments as they were
\* when the request was built.
NoReq == [kind |-> "none", name |-> Null, parent |-> Null, spaces |-> "none",
          id |-> Null, content |-> Null]
Req(kind, name, parent, spaces, id, content) ==
    [kind |-> kind, name |-> name, parent |-> parent, spaces |-> spaces,
     id |-> id, content |-> content]

ListKinds == {"listFolders", "listChildren", "lookup"}
\* requests on an existing id
IdKinds == {"update", "rename", "delete", "download"}

\* what a listing request matches on drive D
Matches(D, req) ==
    CASE req.kind = "listFolders" -> ListFolders(D, req.name)
      [] req.kind = "listChildren" -> ListChildren(D, req.parent, req.spaces)
      [] req.kind = "lookup" -> ListByName(D, req.name, req.parent, req.spaces)
      [] OTHER -> {}

\* The status the remote answers with when it has chosen `status`: a request
\* on an id that holds no entry is answered 404.
Answered(D, req, status) ==
    IF ResponseOk(status) /\ req.kind \in IdKinds /\ D[req.id].kind # "file"
    THEN NotFound
    ELSE status

\* The drive after the remote has executed request `req` (a request answered
\* with a failure status changes nothing).
Executed(D, req, status) ==
    IF ~ResponseOk(status) THEN D
    ELSE CASE req.kind = "createFolder" ->
                [D EXCEPT ![NextId(D)] = FolderEntry(req.name)]
           [] req.kind = "create" ->
                [D EXCEPT ![NextId(D)] = FileEntry(req.name, req.parent, req.content)]
           [] req.kind = "update" -> [D EXCEPT ![req.id].content = req.content]
           [] req.kind = "rename" -> [D EXCEPT ![req.id].name = req.name]
           [] req.kind = "delete" -> [D EXCEPT ![req.id] = GoneEntry]
           [] OTHER -> D

\* --------------------------------------------------------------- tasks
AllKinds == {"listFolders", "createFolder", "listChildren", "download", "lookup",
             "update", "create", "rename", "delete", "token"}

\* what a call of syncFile did for a path: nothing, or the create or the update
\* that was answered 2xx, with its id and content
NoSync == [act |-> "none", id |-> Null, content |-> Null]

\* what addressing reads: the storage location, the cached folder id, the folder name
Addressing(s) ==
    [mode |-> s.settings.storageLocation, handle |-> s.visibleFolderId,
     folderName |-> s.settings.visibleFolderName]
NoAddressing == [mode |-> "none", handle |-> Null, folderName |-> Null]

\* One in-flight async operation.
\*   op       the operation the trigger started
\*   fn       the function whose try/catch encloses the current request
\*   stage    the await the task is suspended at
\*   wait     "resp": its request is in flight; "refresh": the token request
\*            of refreshAccessToken(), called by a wrapper, is in flight
\*   via      the function that sent the request
\*   req, tok the request and the access token it carries
\*   file, oldPath, fileName, content, fileId, listing, queue: the locals
\* The other fields are history. Of the current call of a wrapper: the
\* statuses answered to its sends, the tokens its sends carried, whether
\* every send was the first one again (same), its refreshes and the token the
\* last of them stored; lastCall is this of the call that ended last. Of the
\* whole operation: every response was 2xx (clean), nothing else
\* ran or changed meanwhile (alone), how many entries its last lookup matched
\* and the first of them (target), the parent its listings named (ns), what
\* its calls of syncFile did per path, the names its download phase skipped
\* and downloaded, the calls it made per kind, the drive and the vault when
\* it started (kept while it is alone), what addressing read when it started
\* (start) and when its current request was built (built), the files its pass
\* called syncFile on (attempted), whether its pass reached the end of its loop
\* (finished).
NoCall == [stage |-> "none", statuses |-> <<>>, toks |-> <<>>, same |-> TRUE,
           refreshes |-> 0, refreshedTok |-> Null, outcome |-> "none"]

IdleTask ==
    [op |-> "idle", fn |-> "none", stage |-> "none", wait |-> "none", via |-> "none",
     req |-> NoReq, tok |-> Null, file |-> Null, oldPath |-> Null, fileName |-> Null,
     content |-> Null, fileId |-> Null, listing |-> <<>>, queue |-> <<>>,
     statuses |-> <<>>, toks |-> <<>>, same |-> TRUE, refreshes |-> 0,
     refreshedTok |-> Null, lastCall |-> NoCall,
     clean |-> TRUE, alone |-> TRUE, matched |-> 0, target |-> Null, ns |-> Null,
     did |-> [p \in Paths |-> NoSync], skipped |-> {},
     start |-> NoAddressing, built |-> NoAddressing, attempted |-> {}, finished |-> FALSE,
     calls |-> [k \in AllKinds |-> 0],
     before |-> [i \in Ids |-> NoEntry],
     vaultBefore |-> [f \in Files |-> [path |-> Null, content |-> Null, exists |-> FALSE]],
     downloaded |-> {}]

Active(s) == {t \in Tasks : s.tasks[t].op # "idle"}

\* what is kept of an operation when it ends
Summary(task) ==
    [op |-> task.op, file |-> task.file, fileName |-> task.fileName,
     oldPath |-> task.oldPath,
     clean |-> task.clean, alone |-> task.alone, matched |-> task.matched,
     target |-> task.target, ns |-> task.ns, did |-> task.did, calls |-> task.calls,
     start |-> task.start, attempted |-> task.attempted, finished |-> task.finished,
     before |-> task.before, vaultBefore |-> task.vaultBefore,
     downloaded |-> task.downloaded, skipped |-> task.skipped,
     lastCall |-> task.lastCall]

NoSummary == Summary(IdleTask)

\* a timer of setInterval: its id and the period it was installed with
Timer(id, period) == [id |-> id, period |-> period]

\* window.clearInterval(id)
clearInterval(s, id) == [s EXCEPT !.timers = {m \in @ : m.id # id}]

\* a startAutoSync that installs its timer without clearing the one it holds
startWithoutClear(s) ==
    [s EXCEPT !.timers = @ \cup {Timer(s.timerIds + 1, s.settings.syncInterval)},
              !.syncInterval = s.timerIds + 1,
              !.timerIds = @ + 1]

\* startAutoSync(): clears the timer it holds, installs a new one and holds it
startAutoSync(s) ==
    LET s1 == IF s.syncInterval # Null THEN clearInterval(s, s.syncInterval) ELSE s IN
    [s1 EXCEPT !.timers = @ \cup {Timer(s.timerIds + 1, s.settings.syncInterval)},
               !.syncInterval = s.timerIds + 1,
               !.timerIds = @ + 1]

\* stopAutoSync(): clears the timer it holds, and holds none
stopAutoSync(s) ==
    IF s.syncInterval # Null
    THEN [clearInterval(s, s.syncInterval) EXCEPT !.syncInterval = Null]
    ELSE s

\* onload() after `await this.initializeGoogleDrive()`: the commands, the settings
\* tab and the handlers are registered; `if (this.settings.autoSync) this.startAutoSync()`
Loaded(s) ==
    IF s.settings.autoSync
    THEN [startAutoSync(s) EXCEPT !.loaded = TRUE]
    ELSE [s EXCEPT !.loaded = TRUE]

\* the end of an operation (its promise settles; no handler lets an error out)
EndOp(s, t) ==
    IF s.tasks[t].op = "init"
    THEN Loaded([s EXCEPT !.tasks[t] = IdleTask])
    ELSE IF s.tasks[t].op = "auth"
    THEN [s EXCEPT !.tasks[t] = IdleTask]
    ELSE [s EXCEPT !.tasks[t] = IdleTask, !.prev = s.last,
                   !.last = Summary(s.tasks[t])]

\* ------------------------------------------------------------ the vault
NoFile == [path |-> Null, content |-> Null, exists |-> FALSE]

\* this.app.vault.getAbstractFileByPath(name)
getAbstractFileByPath(s, name) ==
    IF \E f \in Files : s.vault[f].exists /\ s.vault[f].path = name
    THEN CHOOSE f \in Files : s.vault[f].exists /\ s.vault[f].path = name
    ELSE Null

\* the TFile objects some task still holds
Held(s) ==
    {s.tasks[t].file : t \in Tasks} \cup
    UNION {{s.tasks[t].queue[i] : i \in 1..Len(s.tasks[t].queue)} : t \in Tasks}

\* the object a new file gets (Null: the model's objects are used up)
FreshFile(s) ==
    LET free == {f \in Files : ~s.vault[f].exists /\ f \notin Held(s)} IN
    IF free = {} THEN Null
    ELSE CHOOSE f \in free : \A g \in free : f <= g

\* this.app.vault.getFiles(): the files of the vault, in the vault's order
RECURSIVE FilesFrom(_, _)
FilesFrom(s, f) ==
    IF f > MaxFiles THEN <<>>
    ELSE (IF s.vault[f].exists THEN <<f>> ELSE <<>>) \o FilesFrom(s, f + 1)
getFiles(s) == FilesFrom(s, 1)

\* ------------------------------------------------------------ addressing
\* a getParentId that names the hidden namespace whatever the storage location
HiddenParent(s) == AppDataFolder

\* getParentId(): the element of the parents list
getParentId(s) ==
    IF s.settings.storageLocation = "visible" /\ s.visibleFolderId # Null
    THEN s.visibleFolderId
    ELSE AppDataFolder

\* getSearchQuery(fileName): the parent its query names
getSearchQuery(s) ==
    IF s.settings.storageLocation = "visible" /\ s.visibleFolderId # Null
    THEN s.visibleFolderId
    ELSE AppDataFolder

\* getSearchSpace(): "none" is undefined
getSearchSpace(s) ==
    IF s.settings.storageLocation = "visible" THEN "none" ELSE "appDataFolder"

\* ------------------------------------------------- the request wrappers
\* the remote may fail without end: the records of a call then keep its first
\* MaxSends sends, and the token endpoint goes round its tokens
Persistent(s) == s.env.faults > MaxFaults
Bump(s, n) == IF Persistent(s) /\ n >= MaxSends THEN n ELSE n + 1
Push(s, q, x) == IF Persistent(s) /\ Len(q) >= MaxSends THEN q ELSE Append(q, x)
\* tokens.access_token of the next 2xx response of the token endpoint
NextToken(s) == IF s.issued < MaxTokens THEN s.issued + 1 ELSE 1
\* one more failed response
Failed(n) == IF n < MaxFaults THEN n + 1 ELSE n

RECURSIVE Throw(_, _)

\* the current call of a wrapper ends: it returns the response, or throws
EndCall(s, t, outcome) ==
    LET k == s.tasks[t] IN
    [s EXCEPT !.tasks[t].lastCall =
        [stage |-> k.stage, statuses |-> k.statuses, toks |-> k.toks, same |-> k.same,
         refreshes |-> k.refreshes, refreshedTok |-> k.refreshedTok,
         outcome |-> outcome]]

\* a refreshAccessToken that sends its request whether or not a refresh token is stored
refreshWithoutToken(s, t) ==
    [s EXCEPT !.tasks[t].wait = "refresh", !.tasks[t].calls["token"] = @ + 1]

\* refreshAccessToken() up to its await: no refresh token, no request
refreshAccessToken(s, t) ==
    IF s.settings.refreshToken = Null
    THEN Throw(EndCall(s, t, "threw"), t)
    ELSE [s EXCEPT !.tasks[t].wait = "refresh",
                   !.tasks[t].calls["token"] = Bump(s, @)]

\* a fetch whose Authorization header holds no token
FetchWithoutToken(s, t, via) ==
    [s EXCEPT !.tasks[t].wait = "resp",
              !.tasks[t].via = via,
              !.tasks[t].tok = Null,
              !.tasks[t].toks = Append(@, Null)]

\* fetch(url, {headers: {Authorization: `Bearer ${this.accessToken}`}})
Fetch(s, t, via) ==
    LET k == s.tasks[t] IN
    [s EXCEPT !.tasks[t].wait = "resp",
              !.tasks[t].via = via,
              !.tasks[t].tok = s.accessToken,
              !.tasks[t].toks = Push(s, @, s.accessToken),
              !.tasks[t].same = @ /\ (k.toks = <<>> \/ via = k.via
                                       \/ {via, k.via} = {"getDriveFile", "driveApiRequest"})]

\* the body the three wrappers share, up to the await of fetch
Wrapper(s, t, via) ==
    IF s.accessToken = Null
    THEN refreshAccessToken([s EXCEPT !.tasks[t].via = via], t)
    ELSE Fetch(s, t, via)

\* a function starts a new call: the request is built from the state as it is now
NewCall(s, t, stage, req) ==
    [s EXCEPT !.tasks[t].stage = stage,
              !.tasks[t].req = req,
              !.tasks[t].built = Addressing(s),
              !.tasks[t].statuses = <<>>,
              !.tasks[t].toks = <<>>,
              !.tasks[t].same = TRUE,
              !.tasks[t].refreshes = 0,
              !.tasks[t].refreshedTok = Null,
              !.tasks[t].calls[req.kind] = @ + 1]

getDriveFile(s, t, stage, req) == Wrapper(NewCall(s, t, stage, req), t, "getDriveFile")
driveApiRequest(s, t, stage, req) == Wrapper(NewCall(s, t, stage, req), t, "driveApiRequest")
driveUploadRequest(s, t, stage, req) ==
    Wrapper(NewCall(s, t, stage, req), t, "driveUploadRequest")

\* a retry that sends the Authorization header built for the first send
RetryWithSentToken(s, t) ==
    [s EXCEPT !.tasks[t].wait = "resp", !.tasks[t].toks = Append(@, s.tasks[t].tok)]

\* `return this.driveApiRequest(...)` / `return this.driveUploadRequest(...)`
\* after the refresh that follows a 401: the wrapper calls itself (getDriveFile
\* calls driveApiRequest) with the same endpoint and options
Retry(s, t) ==
    LET via == s.tasks[t].via IN
    Wrapper(s, t, IF via = "getDriveFile" THEN "driveApiRequest" ELSE via)

\* initializeGoogleDrive(): returns when no refresh token is stored (the client
\* id and secret are taken as configured), else refreshes; its catch lets no
\* error out
initializeGoogleDrive(s, t) ==
    IF s.settings.refreshToken = Null
    THEN EndOp(s, t)
    ELSE refreshAccessToken([s EXCEPT !.tasks[t].fn = "initializeGoogleDrive",
                                      !.tasks[t].stage = "init",
                                      !.tasks[t].via = "fetch",
                                      !.tasks[t].toks = <<>>], t)

\* -------------------------------------------------- the sync functions
RECURSIVE AfterEnsure(_, _), NextUpload(_, _), NextDownload(_, _)

\* a resolution that does not look at the cached id
ensureWithoutCache(s, t) ==
    getDriveFile(s, t, "ensureList",
        Req("listFolders", s.settings.visibleFolderName, Null, "none", Null, Null))

\* ensureVisibleFolderExists() up to its first await
ensureVisibleFolderExists(s, t) ==
    IF s.visibleFolderId # Null
    THEN AfterEnsure(s, t)
    ELSE getDriveFile(s, t, "ensureList",
             Req("listFolders", s.settings.visibleFolderName, Null, "none", Null, Null))

\* `if (this.settings.storageLocation === 'visible') await this.ensureVisibleFolderExists()`
EnsureIfVisible(s, t) ==
    IF s.settings.storageLocation = "visible"
    THEN ensureVisibleFolderExists(s, t)
    ELSE AfterEnsure(s, t)

\* syncFile returns (it lets no error out) to the loop of syncVault, or its caller ends
ReturnFromSyncFile(s, t) ==
    IF s.tasks[t].op = "syncVault"
    THEN NextUpload([s EXCEPT !.tasks[t].fn = "syncVault"], t)
    ELSE EndOp(s, t)

\* syncFile(file) up to its first network await; vault.read of a deleted file throws
syncFile(s, t, f) ==
    LET s1 == [s EXCEPT !.tasks[t].fn = "syncFile", !.tasks[t].file = f,
                        !.tasks[t].attempted = @ \cup {f}] IN
    IF ~s.vault[f].exists
    THEN ReturnFromSyncFile(s1, t)
    ELSE EnsureIfVisible([s1 EXCEPT !.tasks[t].content = s.vault[f].content,
                                    !.tasks[t].fileName = s.vault[f].path], t)

\* syncFile: the lookup of the file's name
syncFileLookup(s, t) ==
    getDriveFile([s EXCEPT !.tasks[t].ns = getSearchQuery(s)], t, "lookup",
        Req("lookup", s.tasks[t].fileName, getSearchQuery(s), getSearchSpace(s), Null, Null))

\* a pass that has no download phase
downloadPhaseSkipped(s, t) ==
    NextUpload([s EXCEPT !.tasks[t].queue = getFiles(s)], t)


\* downloadMissingFiles() up to its await: the listing of the namespace
downloadMissingFiles(s, t) ==
    IF s.settings.storageLocation = "visible" /\ s.visibleFolderId # Null
    THEN getDriveFile([s EXCEPT !.tasks[t].ns = s.visibleFolderId], t, "downloadList",
             Req("listChildren", Null, s.visibleFolderId, "none", Null, Null))
    ELSE getDriveFile([s EXCEPT !.tasks[t].ns = AppDataFolder], t, "downloadList",
             Req("listChildren", Null, AppDataFolder, "appDataFolder", Null, Null))

\* downloadFile(fileId, fileName) up to its await: a fetch of its own, no wrapper
downloadFile(s, t, e) ==
    Fetch(NewCall([s EXCEPT !.tasks[t].fileId = e.id, !.tasks[t].fileName = e.name,
                            !.tasks[t].downloaded = @ \cup {e.name}],
                  t, "downloadFetch", Req("download", e.name, Null, "none", e.id, Null)),
          t, "fetch")

\* the upload phase of syncVault: `const files = this.app.vault.getFiles()`
UploadPhase(s, t) == NextUpload([s EXCEPT !.tasks[t].queue = getFiles(s)], t)

\* a download phase that does not look at the vault, and one that finds every name there
AlwaysMissing(s, name) == TRUE
NeverMissing(s, name) == FALSE

\* `const existingFile = this.app.vault.getAbstractFileByPath(fileName); if (!existingFile)`
Missing(s, name) == getAbstractFileByPath(s, name) = Null

\* the loop of downloadMissingFiles over response.files
NextDownload(s, t) ==
    LET l == s.tasks[t].listing IN
    IF l = <<>> THEN UploadPhase(s, t)
    ELSE LET s1 == [s EXCEPT !.tasks[t].listing = Tail(l)] IN
         IF Missing(s, Head(l).name)
         THEN downloadFile(s1, t, Head(l))
         ELSE NextDownload([s1 EXCEPT !.tasks[t].skipped = @ \cup {Head(l).name}], t)

\* the loop of syncVault over files; after it the pass has completed
NextUpload(s, t) ==
    LET q == s.tasks[t].queue IN
    IF q = <<>> THEN EndOp([s EXCEPT !.tasks[t].finished = TRUE], t)
    ELSE syncFile([s EXCEPT !.tasks[t].queue = Tail(q)], t, Head(q))

\* a lookup of the new name where handleFileRename asks for the old one
renameLookupNewPath(s, t) ==
    getDriveFile([s EXCEPT !.tasks[t].ns = getSearchQuery(s)], t, "renameLookup",
        Req("lookup", s.vault[s.tasks[t].file].path, getSearchQuery(s), getSearchSpace(s),
            Null, Null))


\* handleFileRename: the lookup of the old name
renameLookup(s, t) ==
    getDriveFile([s EXCEPT !.tasks[t].ns = getSearchQuery(s)], t, "renameLookup",
        Req("lookup", s.tasks[t].oldPath, getSearchQuery(s), getSearchSpace(s), Null, Null))

\* a lookup that leaves out `spaces`: it matches nothing of the hidden namespace
deleteLookupWithoutSpaces(s, t) ==
    getDriveFile([s EXCEPT !.tasks[t].fileName = s.vault[s.tasks[t].file].path,
                           !.tasks[t].ns = getSearchQuery(s)],
        t, "deleteLookup",
        Req("lookup", s.vault[s.tasks[t].file].path, getSearchQuery(s), "none", Null, Null))

\* handleFileDelete: the lookup of the file's name
deleteLookup(s, t) ==
    getDriveFile([s EXCEPT !.tasks[t].fileName = s.vault[s.tasks[t].file].path,
                           !.tasks[t].ns = getSearchQuery(s)],
        t, "deleteLookup",
        Req("lookup", s.vault[s.tasks[t].file].path, getSearchQuery(s), getSearchSpace(s),
            Null, Null))

\* what follows `await this.ensureVisibleFolderExists()` in each caller
AfterEnsure(s, t) ==
    CASE s.tasks[t].fn = "syncVault" -> downloadMissingFiles(s, t)
      [] s.tasks[t].fn = "syncFile" -> syncFileLookup(s, t)
      [] s.tasks[t].fn = "handleFileRename" -> renameLookup(s, t)
      [] s.tasks[t].fn = "handleFileDelete" -> deleteLookup(s, t)

\* a syncFile whose catch throws the error on, to the catch of its caller
syncFileRethrows(s, t) == EndOp(s, t)

\* the catch of syncFile: `console.error(...)`, and syncFile returns
syncFileCatch(s, t) == ReturnFromSyncFile(s, t)

\* an ensureVisibleFolderExists whose catch does not throw the error on
ensureSwallows(s, t) == AfterEnsure(s, t)

\* the catch of ensureVisibleFolderExists: `console.error(...); throw error`, to
\* the catch of its caller
ensureCatch(s, t) ==
    IF s.tasks[t].fn = "syncFile" THEN syncFileCatch(s, t) ELSE EndOp(s, t)

\* a handleFileRename that pushes the content although its rename request failed
ThrowPushes(s, t) ==
    LET k == s.tasks[t] IN
    CASE k.stage \in {"downloadList"} -> UploadPhase(s, t)
      [] k.stage \in {"downloadFetch"} -> NextDownload(s, t)
      [] k.stage \in {"ensureList", "ensureCreate"} -> ensureCatch(s, t)
      [] k.stage \in {"lookup", "update", "create"} /\ k.fn = "syncFile" ->
            syncFileCatch(s, t)
      [] k.stage = "renameName" /\ s.vault[k.file].exists ->
            driveUploadRequest(s, t, "renameContent",
                Req("update", Null, Null, "none", k.fileId, s.vault[k.file].content))
      [] OTHER -> EndOp(s, t)


\* An error thrown at the current await, and the catch that takes it:
\* ensureVisibleFolderExists rethrows to its caller; syncVault's catch ends the
\* pass; syncFile's catch returns to syncFile's caller; downloadMissingFiles'
\* catch returns to syncVault, which goes on to the upload phase; downloadFile's
\* catch returns to the loop of downloadMissingFiles; the catch of
\* handleFileRename, of handleFileDelete and of initializeGoogleDrive ends the
\* operation.
Throw(s, t) ==
    LET k == s.tasks[t] IN
    CASE k.stage \in {"downloadList"} -> UploadPhase(s, t)
      [] k.stage \in {"downloadFetch"} -> NextDownload(s, t)
      [] k.stage \in {"ensureList", "ensureCreate"} -> ensureCatch(s, t)
      [] k.stage \in {"lookup", "update", "create"} /\ k.fn = "syncFile" ->
            syncFileCatch(s, t)
      [] OTHER -> EndOp(s, t)

\* this.app.vault.create(fileName, content): throws when the path is taken
vaultCreate(s, name, content) ==
    [s EXCEPT !.vault[FreshFile(s)] = [path |-> name, content |-> content, exists |-> TRUE]]

\* What a 2xx response carries: the ids a listing matched, in the order of the
\* response; the id of a created entry; the content of a downloaded file.
Payload(files, newId, content) == [files |-> files, newId |-> newId, content |-> content]

\* the listing of downloadMissingFiles: (id, name) of each entry, names as listed
Listed(D, files) == [i \in 1..Len(files) |-> [id |-> files[i], name |-> D[files[i]].name]]

\* a syncFile that creates whatever its lookup found
AlwaysCreate(s, k, files) ==
    Req("create", k.fileName, getParentId(s), "none", Null, k.content)

\* a rename that sends the name the lookup asked for
RenameToOldPath(s, k, files) ==
    Req("rename", k.oldPath, Null, "none", files[1], Null)

\* syncFile after its lookup: the media update of the first entry listed, or
\* the multipart create of a new entry
UploadRequest(s, k, files) ==
    IF files # <<>>
    THEN Req("update", Null, Null, "none", files[1], k.content)
    ELSE Req("create", k.fileName, getParentId(s), "none", Null, k.content)

\* a rename that addresses the last entry listed
RenameLastListed(s, k, files) ==
    Req("rename", s.vault[k.file].path, Null, "none", files[Len(files)], Null)


\* handleFileRename after its lookup: PATCH files/{id} {name: file.path}
RenameRequest(s, k, files) ==
    Req("rename", s.vault[k.file].path, Null, "none", files[1], Null)

\* A wrapper (or fetch) returned the response of a 2xx answer: the
\* continuation of the task, by the await it was suspended at, up to its next
\* await or its end.
Continue(s, t, p) ==
    LET k == s.tasks[t]
        found == p.files # <<>>
        s1 == IF k.req.kind = "lookup"
              THEN [s EXCEPT !.tasks[t].matched = Len(p.files),
                             !.tasks[t].target = IF found THEN p.files[1] ELSE Null]
              ELSE s
    IN
    CASE k.stage = "ensureList" ->
            IF found
            THEN AfterEnsure([s EXCEPT !.visibleFolderId = p.files[1]], t)
            ELSE driveApiRequest(
                     [s EXCEPT !.folderCalls[s.settings.visibleFolderName] = @ + 1],
                     t, "ensureCreate",
                     Req("createFolder", s.settings.visibleFolderName, Null, "none",
                         Null, Null))
      [] k.stage = "ensureCreate" ->
            AfterEnsure([s EXCEPT !.visibleFolderId = p.newId,
                                  !.folderMade[k.req.name] = @ + 1], t)
      [] k.stage = "downloadList" ->
            NextDownload([s EXCEPT !.tasks[t].listing = Listed(s.drive, p.files)], t)
      [] k.stage = "downloadFetch" ->
            IF getAbstractFileByPath(s, k.fileName) # Null
            THEN Throw(s, t)
            ELSE NextDownload(vaultCreate(s, k.fileName, p.content), t)
      [] k.stage = "lookup" ->
            LET r == UploadRequest(s, k, p.files) IN
            driveUploadRequest([s1 EXCEPT !.tasks[t].fileId = r.id], t, r.kind, r)
      [] k.stage = "update" ->
            ReturnFromSyncFile(
                [s EXCEPT !.tasks[t].did[k.fileName] =
                    [act |-> "update", id |-> k.fileId, content |-> k.content]], t)
      [] k.stage = "create" ->
            ReturnFromSyncFile(
                [s EXCEPT !.tasks[t].did[k.fileName] =
                    [act |-> "create", id |-> p.newId, content |-> k.content]], t)
      [] k.stage = "renameLookup" ->
            IF found
            THEN driveApiRequest([s1 EXCEPT !.tasks[t].fileId = p.files[1],
                                            !.tasks[t].fileName = s.vault[k.file].path],
                     t, "renameName", RenameRequest(s, k, p.files))
            ELSE syncFile(s1, t, k.file)
      [] k.stage = "renameName" ->
            IF ~s.vault[k.file].exists
            THEN Throw(s, t)
            ELSE driveUploadRequest(
                     [s EXCEPT !.tasks[t].content = s.vault[k.file].content], t,
                     "renameContent",
                     Req("update", Null, Null, "none", k.fileId, s.vault[k.file].content))
      [] k.stage = "renameContent" -> EndOp(s, t)
      [] k.stage = "deleteLookup" ->
            IF found
            THEN driveApiRequest([s1 EXCEPT !.tasks[t].fileId = p.files[1]], t, "delete",
                     Req("delete", Null, Null, "none", p.files[1], Null))
            ELSE EndOp(s1, t)
      \* the 2xx answer to DELETE has no body: response.json() throws, and the
      \* catch of handleFileDelete ends the operation as its last line would
      [] k.stage = "delete" -> EndOp(s, t)
      [] OTHER -> EndOp(s, t)

\* The token endpoint answered the request of refreshAccessToken().
\* Not 2xx: it throws. 2xx: `this.accessToken = tokens.access_token`, and the
\* caller goes on: initializeGoogleDrive returns; a wrapper that had no token
\* sends its request; a wrapper that had got a 401 calls itself again.
OnRefreshResponse(s, t, status) ==
    LET k == s.tasks[t]
        s1 == [s EXCEPT !.tasks[t].clean = @ /\ ResponseOk(status)]
    IN
    IF ~ResponseOk(status)
    THEN Throw(EndCall(s1, t, "threw"), t)
    ELSE LET s2 == [s1 EXCEPT !.accessToken = NextToken(s),
                              !.issued = NextToken(s),
                              !.tasks[t].refreshes = Bump(s, @),
                              !.tasks[t].refreshedTok = NextToken(s)]
         IN
         IF k.op \in {"init", "auth"} THEN EndOp(s2, t)
         ELSE IF k.toks = <<>> THEN Fetch(s2, t, k.via)
         ELSE Retry(s2, t)

\* a wrapper that refreshes and retries after any response that is not 2xx
OnResponseRetryAny(s, t, status, p) ==
    LET k == s.tasks[t]
        s1 == [s EXCEPT !.tasks[t].clean = @ /\ ResponseOk(status),
                        !.tasks[t].statuses = Push(s, @, status)]
    IN
    IF ~ResponseOk(status) /\ k.via # "fetch"
    THEN refreshAccessToken(s1, t)
    ELSE IF ~ResponseOk(status)
    THEN Throw(EndCall(s1, t, "threw"), t)
    ELSE Continue(EndCall(s1, t, "returned"), t, p)

\* The remote answered the request of a wrapper or of a plain fetch.
\*   401, in a wrapper: `await this.refreshAccessToken(); return this.<wrapper>(...)`
\*   any other status that is not 2xx: throw
\*   2xx: return the response to the caller
OnResponse(s, t, status, p) ==
    LET k == s.tasks[t]
        s1 == [s EXCEPT !.tasks[t].clean = @ /\ ResponseOk(status),
                        !.tasks[t].statuses = Push(s, @, status)]
    IN
    IF status = Unauthorized /\ k.via # "fetch"
    THEN refreshAccessToken(s1, t)
    ELSE IF ~ResponseOk(status)
    THEN Throw(EndCall(s1, t, "threw"), t)
    ELSE Continue(EndCall(s1, t, "returned"), t, p)

\* ------------------------------------------------------------- actions
\* A deleted TFile no task holds any more is garbage.
Collected(s) ==
    [s EXCEPT !.vault = [f \in Files |->
        IF ~s.vault[f].exists /\ f \notin Held(s) THEN NoFile ELSE s.vault[f]]]

\* the vaults and the drives a session may start with
\* (paths and contents are opaque to the plugin: the first n files, file f at
\* path f, with the first content)
InitVaults ==
    {[f \in Files |-> IF f <= n /\ f <= MaxPaths
                      THEN [path |-> f, content |-> 1, exists |-> TRUE]
                      ELSE NoFile] : n \in 0..MaxFiles}

\* The drive an earlier session, or the user in Google Drive, left: nothing; or
\* n entries named as the first path in the namespace of the session (for the
\* visible namespace, with its folder). Two entries of one name are what two
\* racing creates, or an upload by hand, leave; their contents may differ.
EmptyDrive == [i \in Ids |-> NoEntry]
InitDrives(st) ==
    {EmptyDrive} \cup
    {[i \in Ids |->
        LET j == IF st.storageLocation = "visible" THEN i - 1 ELSE i
            parent == IF st.storageLocation = "visible" THEN 1 ELSE AppDataFolder
        IN
        IF j = 0 THEN FolderEntry(st.visibleFolderName)
        ELSE IF j = 1 /\ n >= 1 THEN FileEntry(1, parent, MaxContent)
        ELSE IF j = 2 /\ n >= 2 THEN FileEntry(1, parent, c)
        ELSE NoEntry] :
     n \in 0..2, c \in Contents}

\* A behaviour is explored with one operation at a time, nothing changing while
\* it runs, against a remote that answers 2xx (SeqEnv) or that may fail
\* (FaultEnv); or with operations and changes overlapping (ConcEnv).
SeqEnv == [tasks |-> 1, faults |-> 0, ops |-> MaxOps, ui |-> 0]
FaultEnv == [tasks |-> 1, faults |-> MaxFaults, ops |-> MaxOps, ui |-> 0]
ConcEnv == [tasks |-> MaxTasks, faults |-> 0, ops |-> MaxOps, ui |-> 0]
\* one operation, against a remote that answers 2xx, while the settings tab is used
TabEnv == [tasks |-> 1, faults |-> 0, ops |-> 1, ui |-> MaxUi]
\* one operation and one authorization, against a remote that may fail once
AuthEnv == [tasks |-> 1, faults |-> 1, ops |-> 1, ui |-> 1]
\* no operation, while the settings of auto sync are used
TimerEnv == [tasks |-> 1, faults |-> 0, ops |-> 0, ui |-> MaxTimerUi]
\* one operation, against a remote that may fail without end
LiveEnv == [tasks |-> 1, faults |-> MaxFaults + 1, ops |-> 1, ui |-> 0]
\* overlapping operations, against a remote that may fail
ExpiryEnv == [tasks |-> MaxTasks, faults |-> MaxFaults, ops |-> MaxOps, ui |-> 0]
Envs == {SeqEnv, FaultEnv, ConcEnv, TabEnv, AuthEnv, TimerEnv, ExpiryEnv, LiveEnv}

Init ==
    /\ settings \in [storageLocation : {"appDataFolder", "visible"},
                     visibleFolderName : {1},
                     refreshToken : {Null, 1},
                     syncOnSave : BOOLEAN,
                     autoSync : BOOLEAN,
                     syncInterval : {1}]
    /\ saved = settings
    /\ syncInterval = Null
    /\ timers = {}
    /\ timerIds = 0
    /\ pending = {}
    /\ ui = 0
    /\ granted = NoGrant
    /\ accessToken = Null
    /\ visibleFolderId = Null
    /\ vault \in InitVaults
    /\ drive \in InitDrives(settings)
    /\ tasks = [t \in Tasks |-> IdleTask]
    /\ issued = 0
    /\ loaded = FALSE
    /\ prev = NoSummary
    /\ last = NoSummary
    /\ ops = 0
    /\ changes = 0
    /\ faults = 0
    /\ folderCalls = [n \in FolderNames |-> 0]
    /\ folderMade = [n \in FolderNames |-> 0]
    /\ env \in Envs
    \* auto sync is on at load only in the sessions that explore its settings
    /\ settings.autoSync => env = TimerEnv

\* the slot of a new task
FreeTask(s) ==
    IF Active(s) = Tasks \/ Cardinality(Active(s)) >= s.env.tasks THEN Null
    ELSE CHOOSE t \in Tasks : t \notin Active(s) /\ \A u \in Tasks \ Active(s) : t <= u

\* something else runs or changes: no task in flight is alone any more
Disturbed(s) ==
    [s EXCEPT !.tasks = [t \in Tasks |->
        IF s.tasks[t].op = "idle" THEN s.tasks[t]
        ELSE [s.tasks[t] EXCEPT !.alone = FALSE,
                                !.before = IdleTask.before,
                                !.vaultBefore = IdleTask.vaultBefore]]]

\* a trigger starts operation op in function fn on file f
Started(s, op, fn, f, oldPath) ==
    LET t == FreeTask(s) IN
    [Disturbed(s) EXCEPT
        !.ops = IF op \in {"init", "auth"} THEN @ ELSE @ + 1,
        !.tasks[t] = [IdleTask EXCEPT !.op = op, !.fn = fn, !.file = f,
                                      !.oldPath = oldPath,
                                      !.alone = (Active(s) = {}),
                                      !.start = Addressing(s),
                                      !.before = s.drive,
                                      !.vaultBefore = s.vault]]

CanStart == FreeTask(State) # Null /\ ops < env.ops

\* a change of the vault that starts no operation
CanChange == changes < MaxLocalChanges /\ (env.tasks = 1 => Active(State) = {})

\* onload(): `await this.initializeGoogleDrive()`, which refreshes the access
\* token when a refresh token is stored; the commands and the vault's event
\* handlers are registered after it
onload ==
    /\ ~loaded
    /\ Active(State) = {}
    /\ settings.autoSync => timerIds < MaxTimers
    /\ Becomes(initializeGoogleDrive(
           Started(State, "init", "initializeGoogleDrive", Null, Null), FreeTask(State)))

\* the ribbon icon, the command or a tick of the timer: syncVault()
syncVault ==
    /\ loaded
    /\ accessToken # Null
    /\ CanStart
    /\ Becomes(Collected(EnsureIfVisible(Started(State, "syncVault", "syncVault", Null, Null),
                                         FreeTask(State))))

\* handlers that do not look at the access token
HandlingWithoutToken == settings.syncOnSave


\* the handlers of the vault's events exist when syncOnSave was set at load
\* and run when an access token is held
Handling == settings.syncOnSave /\ accessToken # Null

\* The user changes file f: the vault's 'modify' event, whose handler calls syncFile(file).
modify(f, c) ==
    /\ loaded
    /\ vault[f].exists
    /\ LET s == [State EXCEPT !.vault[f].content = c] IN
       IF Handling
       THEN /\ CanStart
            /\ Becomes(Collected(syncFile(Started(s, "syncFile", "syncFile", f, Null),
                                          FreeTask(s), f)))
       ELSE /\ CanChange
            /\ Becomes(Disturbed([s EXCEPT !.changes = @ + 1]))

\* The user renames file f to path p: the vault's 'rename' event, whose handler calls
\* handleFileRename(file, oldPath).
rename(f, p) ==
    /\ loaded
    /\ vault[f].exists /\ vault[f].path # p
    /\ getAbstractFileByPath(State, p) = Null
    /\ LET s == [State EXCEPT !.vault[f].path = p] IN
       IF Handling
       THEN /\ CanStart
            /\ Becomes(Collected(EnsureIfVisible(
                   Started(s, "rename", "handleFileRename", f, vault[f].path),
                   FreeTask(s))))
       ELSE /\ CanChange
            /\ Becomes(Disturbed([s EXCEPT !.changes = @ + 1]))

\* The user deletes file f: the vault's 'delete' event, whose handler calls
\* handleFileDelete(file).
delete(f) ==
    /\ loaded
    /\ vault[f].exists
    /\ LET s == [State EXCEPT !.vault[f].exists = FALSE, !.vault[f].content = Null] IN
       IF Handling
       THEN /\ CanStart
            /\ Becomes(Collected(EnsureIfVisible(
                   Started(s, "delete", "handleFileDelete", f, Null), FreeTask(s))))
       ELSE /\ CanChange
            /\ Becomes(Collected(Disturbed([s EXCEPT !.changes = @ + 1])))

\* The user creates a file: no handler is registered for the 'create' event.
create(p, c) ==
    /\ loaded
    /\ CanChange
    /\ getAbstractFileByPath(State, p) = Null
    /\ FreshFile(State) # Null
    /\ Becomes(Disturbed([vaultCreate(State, p, c) EXCEPT !.changes = @ + 1]))

\* The token endpoint answers the refresh of task t.
RespondToken(t) ==
    /\ tasks[t].wait = "refresh"
    /\ \E status \in Statuses :
        /\ ResponseOk(status) => (issued < MaxTokens \/ Persistent(State))
        /\ ~ResponseOk(status) => faults < env.faults
        /\ Becomes(Collected(OnRefreshResponse(
               [State EXCEPT !.faults = IF ResponseOk(status) THEN @ ELSE Failed(@)],
               t, status)))

\* The remote executes and answers the request of task t.
Respond(t) ==
    /\ tasks[t].wait = "resp"
    /\ \E chosen \in Statuses :
        LET req == tasks[t].req
            status == Answered(drive, req, chosen)
            ok == ResponseOk(status)
        IN
        /\ ~ok => faults < env.faults
        /\ (status = Unauthorized /\ tasks[t].via # "fetch") =>
              (Len(tasks[t].toks) < MaxSends \/ Persistent(State))
        /\ (ok /\ req.kind \in {"create", "createFolder"}) => NextId(drive) # Null
        /\ (ok /\ req.kind = "download") =>
              (FreshFile(State) # Null \/ getAbstractFileByPath(State, req.name) # Null)
        /\ \E files \in Orderings(Matches(drive, req)) :
              Becomes(Collected(OnResponse(
                  [State EXCEPT !.drive = Executed(drive, req, status),
                                !.faults = IF ok THEN @ ELSE Failed(@)],
                  t, status,
                  Payload(IF ok THEN files ELSE <<>>,
                          NextId(drive),
                          IF ok /\ req.kind = "download" THEN drive[req.id].content
                          ELSE Null))))

\* ------------------------------------------------- the settings tab
CanConfigure == loaded /\ ui < env.ui

\* saveSettings() is called: saveData(this.settings) writes the data file; the
\* handler that awaits it goes on later
saveSettings(s, handler) ==
    Disturbed([s EXCEPT !.saved = s.settings,
                        !.pending = @ \cup {handler},
                        !.ui = @ + 1])

\* The dropdown 'Storage Location' changes.
setStorageLocation(v) ==
    /\ CanConfigure
    /\ v # settings.storageLocation
    /\ Becomes(saveSettings([State EXCEPT !.settings.storageLocation = v], "resetFolder"))

\* The text 'Visible Folder Name' changes.
setVisibleFolderName(n) ==
    /\ CanConfigure
    /\ n # settings.visibleFolderName
    /\ Becomes(saveSettings([State EXCEPT !.settings.visibleFolderName = n], "resetFolder"))

\* The toggle 'Auto Sync' changes.
setAutoSync(v) ==
    /\ CanConfigure
    /\ v # settings.autoSync
    /\ Becomes(saveSettings([State EXCEPT !.settings.autoSync = v],
                            IF v THEN "startAutoSync" ELSE "stopAutoSync"))

\* The slider 'Sync Interval' changes.
setSyncInterval(i) ==
    /\ CanConfigure
    /\ i # settings.syncInterval
    /\ Becomes(saveSettings([State EXCEPT !.settings.syncInterval = i], "restartAutoSync"))

\* what a handler of the settings tab does after `await this.plugin.saveSettings()`
AfterSave(s, handler) ==
    CASE handler = "resetFolder" -> [s EXCEPT !.visibleFolderId = Null]
      [] handler = "startAutoSync" -> startAutoSync(s)
      [] handler = "stopAutoSync" -> stopAutoSync(s)
      [] handler = "restartAutoSync" ->
            IF s.settings.autoSync THEN startAutoSync(s) ELSE s

\* saveSettings() of a handler of the settings tab returns.
saveSettingsDone(handler) ==
    /\ handler \in pending
    /\ timerIds < MaxTimers
    /\ Becomes(Disturbed(AfterSave([State EXCEPT !.pending = @ \ {handler}], handler)))

\* The text 'Authorization Code' changes: setAuthCode(code) sends the code to
\* the token endpoint.
setAuthCode ==
    /\ CanConfigure
    /\ FreeTask(State) # Null
    /\ Becomes([Started(State, "auth", "setAuthCode", Null, Null)
                    EXCEPT !.tasks[FreeTask(State)].stage = "exchange",
                           !.tasks[FreeTask(State)].via = "fetch",
                           !.tasks[FreeTask(State)].wait = "code",
                           !.tasks[FreeTask(State)].calls["token"] = @ + 1,
                           !.ui = @ + 1])

\* an exchange that stores what the response holds before it looks at response.ok
OnCodeResponseUnchecked(s, t, status, refreshToken) ==
    LET s2 == [s EXCEPT !.settings.refreshToken = refreshToken,
                        !.accessToken = IF ResponseOk(status) THEN s.issued + 1 ELSE Null,
                        !.issued = IF ResponseOk(status) THEN s.issued + 1 ELSE @,
                        !.granted = Grant(status, refreshToken,
                                          IF ResponseOk(status) THEN s.issued + 1 ELSE Null)]
    IN IF ResponseOk(status)
       THEN initializeGoogleDrive([s2 EXCEPT !.saved = s2.settings], t)
       ELSE EndOp(s2, t)

\* setAuthCode after its fetch. Not 2xx: it throws, and its catch ends it. 2xx:
\* `this.settings.refreshToken = tokens.refresh_token; this.accessToken =
\* tokens.access_token; await this.saveSettings(); await this.initializeGoogleDrive()`
\* (saveSettings is taken as one step with what precedes it)
OnCodeResponse(s, t, status, refreshToken) ==
    LET s1 == [s EXCEPT !.tasks[t].clean = @ /\ ResponseOk(status),
                        !.granted = Grant(status, refreshToken,
                                          IF ResponseOk(status) THEN s.issued + 1 ELSE Null)]
    IN
    IF ~ResponseOk(status)
    THEN EndOp(s1, t)
    ELSE LET s2 == [s1 EXCEPT !.settings.refreshToken = refreshToken,
                              !.accessToken = s.issued + 1,
                              !.issued = s.issued + 1]
         IN initializeGoogleDrive([s2 EXCEPT !.saved = s2.settings], t)

\* The token endpoint answers the code of task t: with an access token and a
\* refresh token (none when the account had granted access before).
RespondCode(t) ==
    /\ tasks[t].wait = "code"
    /\ \E status \in Statuses, r \in RefreshTokens \cup {Null} :
        /\ ResponseOk(status) => issued < MaxTokens
        /\ ~ResponseOk(status) => (faults < env.faults /\ r = Null)
        /\ Becomes(Collected(OnCodeResponse(
               [State EXCEPT !.faults = IF ResponseOk(status) THEN @ ELSE @ + 1],
               t, status, r)))

Next ==
    \/ onload
    \/ syncVault
    \/ \E f \in Files, c \in Contents : modify(f, c)
    \/ \E f \in Files, p \in Paths : rename(f, p)
    \/ \E f \in Files : delete(f)
    \/ \E p \in Paths, c \in Contents : create(p, c)
    \/ \E t \in Tasks : RespondToken(t)
    \/ \E t \in Tasks : Respond(t)

Spec == Init /\ [][Next]_vars

\* the operations of the plugin in the three regimes of the remote and of the
\* scheduling: in sequence, with failures, overlapping
OpsInit == Init /\ env \in {SeqEnv, FaultEnv, ConcEnv}
OpsSpec == OpsInit /\ [][Next]_vars

\* one operation at a time, against a remote that answers 2xx
SeqInit == Init /\ env = SeqEnv
SeqSpec == SeqInit /\ [][Next]_vars

\* one operation at a time, against a remote that may fail
FaultInit == Init /\ env = FaultEnv
FaultSpec == FaultInit /\ [][Next]_vars

\* overlapping operations, against a remote that answers 2xx
ConcInit == Init /\ env = ConcEnv
ConcSpec == ConcInit /\ [][Next]_vars

\* overlapping passes over a vault of one file and an empty hidden namespace,
\* against a remote that may fail
ExpiryInit ==
    /\ Init /\ env = ExpiryEnv
    /\ ~settings.syncOnSave /\ settings.storageLocation = "appDataFolder"
    /\ drive = EmptyDrive
    /\ \E f \in Files : vault[f].exists /\ \A g \in Files \ {f} : ~vault[g].exists
ExpirySpec == ExpiryInit /\ [][Next]_vars

\* no operation is in flight
Quiet == Active(State) = {}

\* Every request is answered in the end, by a remote that may fail without end.
LiveInit ==
    /\ Init /\ env = LiveEnv
    /\ ~settings.syncOnSave /\ settings.storageLocation = "appDataFolder"
    /\ drive = EmptyDrive
    /\ \E f \in Files : vault[f].exists /\ \A g \in Files \ {f} : ~vault[g].exists
\* Weak fairness of the answers, WF_vars(\E t \in Tasks : Respond(t) \/
\* RespondToken(t)), written out: an answer is enabled exactly while a task is
\* in flight (some status is always allowed), and with one task at a time
\* every step taken while a task is in flight is an answer.
AnswersCome == []<>Quiet \/ []<><<~Quiet>>_vars
\* the token endpoint answers every refresh
TokenAnswersCome == \A t \in Tasks : WF_vars(RespondToken(t))
LiveSpec == LiveInit /\ [][Next]_vars /\ AnswersCome /\ TokenAnswersCome

\* no two files of one name under one parent on drive D
Unique(D) ==
    \A i, j \in Ids :
        (i # j /\ D[i].kind = "file" /\ D[j].kind = "file" /\ D[i].name = D[j].name)
            => D[i].parent # D[j].parent

\* overlapping operations on a drive whose names are unique at the start
UniqueInit == ConcInit /\ Unique(drive)
UniqueSpec == UniqueInit /\ [][Next]_vars


\* the sync engine and the settings of the namespace
TabNext ==
    \/ Next
    \/ \E v \in {"appDataFolder", "visible"} : setStorageLocation(v)
    \/ \E n \in FolderNames : setVisibleFolderName(n)
    \/ \E handler \in pending : saveSettingsDone(handler)

\* one operation, against a remote that answers 2xx, while the storage
\* location and the folder name are changed
TabInit == Init /\ env = TabEnv
TabSpec == TabInit /\ [][TabNext]_vars

\* the sync engine and the authorization
AuthNext ==
    \/ Next
    \/ setAuthCode
    \/ \E t \in Tasks : RespondCode(t)

\* one operation and one authorization, against a remote that may fail once
AuthInit == Init /\ env = AuthEnv
AuthSpec == AuthInit /\ [][AuthNext]_vars

\* the load of the plugin and the settings of auto sync
TimerNext ==
    \/ onload
    \/ \E t \in Tasks : RespondToken(t)
    \/ \E v \in BOOLEAN : setAutoSync(v)
    \/ \E i \in Intervals : setSyncInterval(i)
    \/ \E handler \in pending : saveSettingsDone(handler)

\* auto sync is switched and its interval changed, on a vault left alone
TimerInit == Init /\ env = TimerEnv /\ drive = EmptyDrive
TimerSpec == TimerInit /\ [][TimerNext]_vars

\* ------------------------------------------------------------ properties

\* the calls of the wrappers that history still holds: the current call of
\* each task, the call each task ended last, and the last calls of the two
\* operations completed last
Current(k) ==
    [stage |-> k.stage, statuses |-> k.statuses, toks |-> k.toks, same |-> k.same,
     refreshes |-> k.refreshes, refreshedTok |-> k.refreshedTok, outcome |-> "none"]
EndedCalls == {tasks[t].lastCall : t \in Tasks} \cup {prev.lastCall, last.lastCall}
TwiceUnauthorized(c) ==
    Len(c.statuses) >= 2 /\ c.statuses[1] = Unauthorized /\ c.statuses[2] = Unauthorized
UnauthorizedThenOk(c) ==
    Len(c.statuses) = 2 /\ c.statuses[1] = Unauthorized /\ ResponseOk(c.statuses[2])

\* C1: a wrapped request whose first send and whose retry are both answered 401
\* fails there: it was sent exactly twice, after exactly one refresh, and no
\* third attempt (no second refresh) is made.
C1_AuthErrorAfterTwoSends ==
    /\ \A t \in Tasks : ~TwiceUnauthorized(Current(tasks[t]))
    /\ \A c \in EndedCalls :
          TwiceUnauthorized(c) =>
              c.outcome = "threw" /\ Len(c.toks) = 2 /\ c.refreshes = 1

\* C2: at most one pass of syncVault is in flight at any time.
C2_OnePassAtATime ==
    Cardinality({t \in Tasks : tasks[t].op = "syncVault"}) <= 1

\* C6: a wrapped request answered 401 and then, on its retry, 2xx returns that
\* response: exactly one refresh was made, the request was sent exactly twice,
\* both times the same request, and the retry carried the token the refresh
\* stored, not the one first sent.
C6_RetryOnceSucceeds ==
    \A c \in EndedCalls \cup {Current(tasks[t]) : t \in Tasks} :
        UnauthorizedThenOk(c) =>
            /\ c.outcome = "returned"
            /\ c.refreshes = 1
            /\ Len(c.toks) = 2
            /\ c.same
            /\ c.toks[2] = c.refreshedTok
            /\ c.toks[2] # c.toks[1]

C6_Witness ==
    \E c \in EndedCalls : UnauthorizedThenOk(c) /\ c.outcome = "returned"

\* C9: in the visible mode, whatever the interleaving of the operations that
\* resolve the namespace, the drive holds at most one folder of the configured
\* name: at most one container is created.
C9_OneContainer ==
    \A n \in FolderNames : Cardinality(ListFolders(drive, n)) <= 1

\* the files named `name` under parent `ns` on drive D
NamedIn(D, name, ns) ==
    {i \in Ids : D[i].kind = "file" /\ D[i].name = name /\ D[i].parent = ns}

\* the operation ran against a reliable remote, with nothing else running or changing
Undisturbed(o) == o.clean /\ o.alone

\* the two operations completed last are two calls of syncFile(file), or two passes
TwoSyncs ==
    /\ prev.op \in {"syncFile", "syncVault"} /\ last.op = prev.op
    /\ Undisturbed(prev) /\ Undisturbed(last)

\* C3: two calls of syncFile on a file of unchanged content (two event-driven
\* calls, or the upload phases of two passes), one after the other against a
\* reliable remote that had no entry of the file's name: the first created the
\* entry, the second updated the content of that same id and created nothing,
\* and the remote holds exactly one entry of that name, with that content.
C3_SecondSyncUpdates ==
    Quiet /\ TwoSyncs =>
        \A p \in Paths :
            (/\ NamedIn(prev.before, p, prev.ns) = {}
             /\ prev.did[p].act # "none" /\ last.did[p].act # "none"
             /\ prev.did[p].content = last.did[p].content)
            => /\ prev.did[p].act = "create"
               /\ last.did[p].act = "update"
               /\ last.did[p].id = prev.did[p].id
               /\ last.ns = prev.ns
               /\ NamedIn(drive, p, last.ns) = {prev.did[p].id}
               /\ drive[prev.did[p].id].content = last.did[p].content

C3_Witness ==
    /\ Quiet /\ TwoSyncs
    /\ \E p \in Paths :
          /\ NamedIn(prev.before, p, prev.ns) = {}
          /\ prev.did[p].act = "create" /\ last.did[p].act = "update"
          /\ prev.did[p].content = last.did[p].content

\* the rename handler completed last, undisturbed
RenameDone == Quiet /\ last.op = "rename" /\ Undisturbed(last)

\* what C4 and its amended form conclude of the entries E that were named oldPath
RenamedOneOf(E) ==
    /\ last.target \in E
    /\ drive[last.target].kind = "file"
    /\ drive[last.target].name = vault[last.file].path
    /\ NamedIn(drive, last.oldPath, last.ns) = {}
    /\ last.calls["create"] = 0

\* C4 (amended): when the namespace held exactly one entry named oldPath, after
\* the rename handler that entry has kept its id, its name is file.path, and
\* no entry named oldPath remains.
C4_RenameKeepsEntry ==
    RenameDone /\ Cardinality(NamedIn(last.before, last.oldPath, last.ns)) = 1
        => RenamedOneOf(NamedIn(last.before, last.oldPath, last.ns))

C4_Witness ==
    /\ RenameDone
    /\ Cardinality(NamedIn(last.before, last.oldPath, last.ns)) = 1
    /\ last.calls["rename"] = 1

\* C4 as stated: whenever the namespace held an entry named oldPath.
C4_AsStated ==
    RenameDone /\ NamedIn(last.before, last.oldPath, last.ns) # {}
        => RenamedOneOf(NamedIn(last.before, last.oldPath, last.ns))

\* the delete handler completed twice in a row for one path, undisturbed
TwoDeletes ==
    /\ Quiet
    /\ prev.op = "delete" /\ last.op = "delete" /\ prev.fileName = last.fileName
    /\ Undisturbed(prev) /\ Undisturbed(last)

\* what C5 and its amended form conclude
SecondDeleteIsNoOp ==
    /\ prev.calls["delete"] = 1
    /\ last.calls["delete"] = 0
    /\ last.calls["update"] + last.calls["create"] + last.calls["rename"] = 0
    /\ drive = last.before
    /\ NamedIn(drive, last.fileName, last.ns) = {}

\* C5 (amended): the delete handler called twice for one path, with no upload
\* between, when the namespace held exactly one entry of that name: the first
\* call issued exactly one delete, the second found nothing, issued no delete
\* and left the remote as it was. (Neither call lets an error out: every
\* operation of the model ends in EndOp.)
C5_SecondDeleteIsNoOp ==
    TwoDeletes /\ Cardinality(NamedIn(prev.before, prev.fileName, prev.ns)) = 1
        => SecondDeleteIsNoOp

C5_Witness ==
    TwoDeletes /\ Cardinality(NamedIn(prev.before, prev.fileName, prev.ns)) = 1

\* C5 as stated: whenever the first call found an entry.
C5_AsStated ==
    TwoDeletes /\ NamedIn(prev.before, prev.fileName, prev.ns) # {}
        => SecondDeleteIsNoOp

\* a step in which task t sends the request of downloadFile
DownloadSent(t) == tasks'[t].calls["download"] = tasks[t].calls["download"] + 1

\* a step of task t itself: it makes its next call, or ends
Stepped(t) == tasks'[t].calls # tasks[t].calls \/ (tasks[t].op # "idle" /\ tasks'[t].op = "idle")

InDownloadPhase(t) == tasks[t].stage \in {"downloadList", "downloadFetch"}

\* C7: the download phase of a pass never sends the download of a remote file
\* whose name is the path of a file of the vault, and no step of the download
\* phase changes a file the vault already had.
C7_ExistingFilesNotDownloaded ==
    [][\A t \in Tasks :
          /\ DownloadSent(t) =>
                \A f \in Files : ~(vault'[f].exists /\ vault'[f].path = tasks'[t].req.name)
          /\ InDownloadPhase(t) /\ Stepped(t) =>
                \A f \in Files : vault[f].exists => vault'[f] = vault[f]]_vars

\* a pass completed whose download phase met a remote file named as a local one
C7_Witness ==
    /\ last.op = "syncVault"
    /\ last.skipped # {}
    /\ \E i \in Ids, f \in Files :
          /\ last.before[i].kind = "file" /\ last.vaultBefore[f].exists
          /\ last.before[i].name = last.vaultBefore[f].path
          /\ last.before[i].content # last.vaultBefore[f].content

\* a step in which a pass of syncVault completes, undisturbed
PassEnds(t) ==
    /\ tasks[t].op = "syncVault" /\ tasks'[t].op = "idle"
    /\ Undisturbed(last')

\* the entries of the pass's namespace that had no local file when it started
RemoteOnly(o) ==
    {i \in Ids : /\ o.before[i].kind = "file" /\ o.before[i].parent = o.ns
                 /\ \A f \in Files : ~(o.vaultBefore[f].exists
                                        /\ o.vaultBefore[f].path = o.before[i].name)}

\* what C8 and its amended form conclude of entry i when the pass completes
Materialized(i) ==
    LET e == last'.before[i] IN
    /\ \E f \in Files : vault'[f] = [path |-> e.name, content |-> e.content, exists |-> TRUE]
    /\ drive'[i] = e
    /\ NamedIn(drive', e.name, last'.ns) = NamedIn(last'.before, e.name, last'.ns)

\* C8 (amended): a pass against a reliable remote leaves, for every file of the
\* namespace that had no local file and whose name no other entry of the
\* namespace bore, a local file at that path with the remote content; the
\* entry is as it was (id, name, content) and the upload phase created no
\* other entry of that name.
C8_RemoteOnlyMaterialized ==
    [][\A t \in Tasks : PassEnds(t) =>
          \A i \in RemoteOnly(last') :
              NamedIn(last'.before, last'.before[i].name, last'.ns) = {i}
                  => Materialized(i)]_vars

C8_Witness ==
    /\ last.op = "syncVault" /\ Undisturbed(last)
    /\ \E i \in RemoteOnly(last) :
          /\ NamedIn(last.before, last.before[i].name, last.ns) = {i}
          /\ last.before[i].name \in last.downloaded
          /\ last.did[last.before[i].name].act = "update"

\* C8 as stated: for every file of the namespace that had no local file.
C8_AsStated ==
    [][\A t \in Tasks : PassEnds(t) =>
          \A i \in RemoteOnly(last') : Materialized(i)]_vars

\* a resolution of the namespace has a request in flight
Resolving(t) == tasks[t].stage \in {"ensureList", "ensureCreate"}

\* C10 (amended): over the resolutions of a session made one after the other,
\* at most one create-container call succeeds (one that failed is made again
\* by the next resolution), and a resolution that finds the id cached makes no
\* remote call: none is in flight while the id is cached.
C10_OneContainerMade ==
    /\ \A n \in FolderNames : folderMade[n] <= 1 /\ Cardinality(ListFolders(drive, n)) <= 1
    /\ \A t \in Tasks : Resolving(t) => visibleFolderId = Null

\* two operations resolved the namespace: the first created the container,
\* the second found the id cached
C10_Witness ==
    /\ Quiet /\ prev.op # "idle" /\ last.op # "idle"
    /\ visibleFolderId # Null
    /\ \E n \in FolderNames : folderMade[n] = 1
    /\ prev.calls["createFolder"] = 1
    /\ last.calls["listFolders"] = 0 /\ last.calls["createFolder"] = 0

\* C10 as stated: at most one create-container call is issued.
C10_AsStated == \A n \in FolderNames : folderCalls[n] <= 1

\* the requests that name a parent: the listing of the namespace, a lookup, a create
Addressed(t) ==
    tasks[t].wait # "none" /\ tasks[t].req.kind \in {"listChildren", "lookup", "create"}

\* C11: once the handler of a change of the storage location or of the folder
\* name has reset the cached folder id, a request that is addressed with a
\* cached folder id names the folder of the folder name configured when the
\* request was built, also when the name was changed while a resolution of the
\* previous name was in flight.
C11_HandleIsCurrent ==
    \A t \in Tasks :
        "resetFolder" \notin pending /\ Addressed(t) /\ tasks[t].req.parent \in Ids =>
            /\ drive[tasks[t].req.parent].kind = "folder"
            /\ drive[tasks[t].req.parent].name = tasks[t].built.folderName

\* the first operation of the session was a pass in the visible mode, undisturbed,
\* and a folder of the configured name was on the drive
FirstPassFoundFolder ==
    /\ Quiet /\ prev.op = "idle" /\ last.op = "syncVault" /\ Undisturbed(last)
    /\ last.start.mode = "visible" /\ last.start.handle = Null
    /\ ListFolders(last.before, last.start.folderName) # {}

\* C12: in the visible mode with nothing cached and a folder of the configured
\* name on the drive, the resolution of a pass lists once, caches the id of
\* that folder and creates no folder; what the pass uploads is under that folder.
C12_ExistingFolderFound ==
    FirstPassFoundFolder =>
        /\ last.calls["listFolders"] = 1
        /\ last.calls["createFolder"] = 0
        /\ visibleFolderId \in ListFolders(last.before, last.start.folderName)
        /\ ListFolders(drive, last.start.folderName)
              = ListFolders(last.before, last.start.folderName)
        /\ \A p \in Paths :
              last.did[p].act # "none" => drive[last.did[p].id].parent = visibleFolderId

C12_Witness ==
    FirstPassFoundFolder /\ \E p \in Paths : last.did[p].act = "create"

\* C13: at most one request of refreshAccessToken is in flight at any time.
C13_OneRefreshAtATime ==
    Cardinality({t \in Tasks : tasks[t].wait = "refresh"}) <= 1

\* C14: a pass that got past the resolution of its namespace ends at the end
\* of its loop, having called syncFile on every file of the vault, whatever
\* failed while it downloaded or synced a file.
C14_PassOutlivesFileFailures ==
    [][\A t \in Tasks :
          /\ tasks[t].op = "syncVault" /\ tasks'[t].op = "idle"
          /\ last'.calls["listChildren"] >= 1
          => /\ last'.finished
             /\ last'.attempted = {f \in Files : vault'[f].exists}]_vars

\* a pass ended in which syncFile failed on one file and synced a later one
C14_Witness ==
    /\ Quiet /\ last.op = "syncVault" /\ last.finished /\ ~last.clean
    /\ \E f, g \in last.attempted :
          /\ f < g /\ vault[f].exists /\ vault[g].exists
          /\ last.did[vault[f].path].act = "none"
          /\ last.did[vault[g].path].act # "none"

\* the call that ended last was a resolution of the namespace, and it threw
ResolutionFailed(c) == c.stage \in {"ensureList", "ensureCreate"} /\ c.outcome = "threw"

\* C15: a pass whose resolution of the namespace fails ends there: no pass is
\* in flight after its resolution threw, and the pass that ended so has issued
\* no listing of files, no download, no lookup, no update and no create, and
\* has left the folder id null.
C15_PassEndsOnNamespaceError ==
    /\ \A t \in Tasks : tasks[t].op = "syncVault" => ~ResolutionFailed(tasks[t].lastCall)
    /\ Quiet /\ last.op = "syncVault" /\ ResolutionFailed(last.lastCall) =>
          /\ \A k \in {"listChildren", "download", "lookup", "update", "create"} :
                last.calls[k] = 0
          /\ visibleFolderId = Null

C15_Witness ==
    Quiet /\ last.op = "syncVault" /\ ResolutionFailed(last.lastCall)

\* C16: at most one timer is active, and it is the one the plugin holds, after
\* any sequence of loads, switches of auto sync and changes of the interval.
C16_OneTimer ==
    /\ Cardinality(timers) <= 1
    /\ \A m \in timers : m.id = syncInterval

\* auto sync was restarted: a second timer was installed, and one is active
C16_Witness == timerIds >= 2 /\ Cardinality(timers) = 1

\* C17: every request of a pass that names a parent names the namespace the
\* settings selected when the pass started: the hidden one, or the folder of
\* the folder name of then.
C17_PassKeepsNamespace ==
    \A t \in Tasks :
        tasks[t].op = "syncVault" /\ Addressed(t) =>
            IF tasks[t].start.mode = "visible"
            THEN /\ tasks[t].req.parent \in Ids
                 /\ drive[tasks[t].req.parent].name = tasks[t].start.folderName
            ELSE tasks[t].req.parent = AppDataFolder

\* C18: a request is addressed as the storage location configured when it was
\* built says. Hidden: no resolution of a folder, the parent 'appDataFolder',
\* and spaces=appDataFolder on a lookup or a listing. Visible: the cached
\* folder id as parent, not null, and no spaces.
C18_AddressingMatchesMode ==
    \A t \in Tasks :
        tasks[t].wait # "none" =>
            LET r == tasks[t].req
                b == tasks[t].built
            IN
            /\ r.kind \in {"listFolders", "createFolder"} => b.mode = "visible"
            /\ Addressed(t) /\ b.mode = "appDataFolder" =>
                  /\ r.parent = AppDataFolder
                  /\ r.kind # "create" => r.spaces = "appDataFolder"
            /\ Addressed(t) /\ b.mode = "visible" =>
                  /\ b.handle # Null /\ r.parent = b.handle
                  /\ r.spaces = "none"

\* task t sends a request of refreshAccessToken in this step
RefreshSent(t) ==
    /\ tasks'[t].wait = "refresh"
    /\ tasks[t].wait # "refresh" \/ tasks'[t].calls["token"] # tasks[t].calls["token"]

\* the token endpoint answers the refresh of task t in this step
RefreshAnswered(t) ==
    /\ tasks[t].wait = "refresh"
    /\ tasks'[t].wait # "refresh" \/ tasks'[t].calls["token"] # tasks[t].calls["token"]

\* C19: refreshAccessToken sends no request when no refresh token is stored,
\* and the call that needed it throws; an answer that is not 2xx leaves the
\* access token as it was; a 2xx answer replaces the access token and nothing
\* else: the settings, the data file, the folder id and the timer stay (the
\* timer but for the start of auto sync that follows in onload).
C19_RefreshContract ==
    [][/\ \A t \in Tasks :
            /\ RefreshSent(t) => settings'.refreshToken # Null
            /\ RefreshAnswered(t) =>
                  /\ settings' = settings /\ saved' = saved
                  /\ visibleFolderId' = visibleFolderId
                  /\ tasks[t].op # "init" => syncInterval' = syncInterval /\ timers' = timers
                  /\ accessToken' = IF issued' # issued THEN issued' ELSE accessToken
       /\ \A c \in {tasks'[t].lastCall : t \in Tasks} \cup {last'.lastCall} :
            c.statuses = <<Unauthorized>> => c.outcome = "threw" /\ c.refreshes = 0]_vars

\* a pass ended on a call that was answered 401 while no refresh token was
\* stored: the call threw, and the pass sent nothing to the token endpoint
C19_Witness ==
    /\ Quiet /\ last.op = "syncVault" /\ settings.refreshToken = Null
    /\ last.lastCall.statuses = <<Unauthorized>> /\ last.lastCall.outcome = "threw"
    /\ last.calls["token"] = 0

\* the token endpoint answers the code of task t in this step
CodeAnswered(t) == tasks[t].wait = "code" /\ tasks'[t].wait # "code"

\* C20: a 2xx answer to the code stores the refresh token it holds in the
\* settings and in the data file, and the access token it holds in memory;
\* an answer that is not 2xx ends setAuthCode there, in its catch, and leaves
\* the stored refresh token and the access token as they were.
C20_ExchangeContract ==
    [][\A t \in Tasks :
          CodeAnswered(t) =>
              IF ResponseOk(granted'.status)
              THEN /\ settings'.refreshToken = granted'.refreshToken
                   /\ saved'.refreshToken = granted'.refreshToken
                   /\ accessToken' = granted'.accessToken
                   /\ accessToken' # Null
              ELSE /\ settings' = settings /\ saved' = saved
                   /\ accessToken' = accessToken
                   /\ tasks'[t].op = "idle" /\ issued' = issued]_vars

\* a code was exchanged for a refresh token other than the stored one
C20_Witness ==
    /\ granted.status = 200 /\ granted.refreshToken = 2
    /\ settings.refreshToken = 2 /\ saved.refreshToken = 2

\* C21: every request in flight to the drive, and every request the calls on
\* record have sent, carries an access token that the token endpoint issued.
C21_RequestsCarryToken ==
    /\ \A t \in Tasks : tasks[t].wait = "resp" => tasks[t].tok \in 1..issued
    /\ \A c \in EndedCalls : \A i \in 1..Len(c.toks) : c.toks[i] \in 1..issued

\* a download, sent by a plain fetch, carries the token of a refresh made
\* during the pass
C21_Witness ==
    \E t \in Tasks :
        /\ tasks[t].wait = "resp" /\ tasks[t].req.kind = "download"
        /\ tasks[t].calls["token"] >= 1 /\ tasks[t].tok = issued

\* the call ended on a response that was neither 2xx nor 401
OtherError(c) ==
    /\ c.statuses # <<>>
    /\ c.statuses[Len(c.statuses)] # Unauthorized
    /\ ~ResponseOk(c.statuses[Len(c.statuses)])

\* the call task t ended last, as of the end of the step
EndedNow(t) == IF tasks'[t].op = "idle" THEN last'.lastCall ELSE tasks'[t].lastCall

\* C22: a response that is neither 2xx nor 401 ends the call with an error:
\* the request is not sent again and no refresh follows it (the sends and the
\* refreshes of the call are those of the 401s before it), and the step that
\* answers it leaves the access token as it was.
C22_OtherErrorsSurface ==
    [][/\ \A t \in Tasks :
            tasks'[t].wait \in {"resp", "refresh"} =>
                \A i \in 1..Len(tasks'[t].statuses) : tasks'[t].statuses[i] = Unauthorized
       /\ \A c \in {tasks'[t].lastCall : t \in Tasks} \cup {last'.lastCall} :
            OtherError(c) =>
                /\ c.outcome = "threw"
                /\ Len(c.toks) = Len(c.statuses)
                /\ c.refreshes = Len(c.statuses) - 1
       /\ \A t \in Tasks :
            /\ tasks[t].wait = "resp" /\ faults' = faults + 1
            /\ tasks'[t].wait # "refresh" /\ OtherError(EndedNow(t))
            => accessToken' = accessToken /\ issued' = issued]_vars

\* a call of a wrapper was sent once, answered 500, and threw
C22_Witness ==
    \E c \in EndedCalls :
        /\ c.statuses = <<500>> /\ c.outcome = "threw" /\ Len(c.toks) = 1
        /\ c.stage # "downloadFetch"

\* C23: when every request is answered in the end, every pass that started
\* ends in the end, whatever the remote answers.
C23_PassConcludes ==
    \A t \in Tasks : (tasks[t].op = "syncVault") ~> (tasks[t].op # "syncVault")

\* C24: on a drive whose names were unique at the start, no two files have the
\* same name under the same parent, whatever the interleaving of the operations.
C24_NamesStayUnique == Unique(drive)

\* C25: when the two operations completed last both pushed the content of a
\* file to the same entry, against a reliable remote, and one of them pushed
\* the content the file has now, that entry holds the content the file has
\* now: no older snapshot is left on the drive.
C25_LatestContentWins ==
    Quiet /\ prev.clean /\ last.clean =>
        \A f \in Files :
            LET p == vault[f].path IN
            (/\ vault[f].exists
             /\ prev.did[p].act # "none" /\ last.did[p].act # "none"
             /\ prev.did[p].id = last.did[p].id
             /\ vault[f].content \in {prev.did[p].content, last.did[p].content}
             /\ drive[last.did[p].id].kind = "file")
            => drive[last.did[p].id].content = vault[f].content

\* C26: when the delete handler of a path has completed against a reliable
\* remote and no file is at that path in the vault, the namespace holds no
\* entry of that name: no operation that was in flight has put one back.
C26_DeleteIsNotUndone ==
    Quiet /\ prev.clean /\ last.clean =>
        \A o \in {prev, last} :
            (o.op = "delete" /\ getAbstractFileByPath(State, o.fileName) = Null)
                => NamedIn(drive, o.fileName, o.ns) = {}

\* the only lookup of the rename handler, that of oldPath, found an entry
OldFound(o) == o.op = "rename" /\ o.calls["lookup"] = 1 /\ o.matched >= 1

\* C27: when handleFileRename found the old entry, the rename of the metadata
\* is sent first, with no content pushed before it; the content goes to the
\* same id only after the rename returned, and always then; a rename that
\* threw ends the operation without a push.
C27_RenameThenPush ==
    /\ \A t \in Tasks :
          LET k == tasks[t] IN
          OldFound(k) /\ k.wait # "none" =>
              /\ k.stage \in {"renameName", "renameContent"}
              /\ k.calls["rename"] = 1 /\ k.calls["create"] = 0
              /\ k.req.id = k.target
              /\ k.stage = "renameName" => k.req.kind = "rename" /\ k.calls["update"] = 0
              /\ k.stage = "renameContent" =>
                    /\ k.req.kind = "update" /\ k.calls["update"] = 1
                    /\ k.lastCall.stage = "renameName" /\ k.lastCall.outcome = "returned"
    /\ OldFound(last) =>
          /\ last.calls["rename"] = 1 /\ last.calls["create"] = 0
          /\ last.lastCall.stage \in {"renameName", "renameContent"}
          /\ last.lastCall.stage = "renameName" =>
                last.lastCall.outcome = "threw" /\ last.calls["update"] = 0
          /\ last.lastCall.stage = "renameContent" => last.calls["update"] = 1

\* a rename handler ended on a rename request that threw
C27_Witness ==
    /\ Quiet /\ OldFound(last)
    /\ last.lastCall.stage = "renameName" /\ last.lastCall.outcome = "threw"


\* the rename handler completed last, undisturbed, and the namespace held no
\* entry of the old name
RenameFellBack ==
    RenameDone /\ NamedIn(last.before, last.oldPath, last.ns) = {}

\* C28: when the remote has no entry named oldPath, handleFileRename does what
\* syncFile(file) does: it sends no rename (and no delete); when the namespace
\* held no entry named file.path it creates one, otherwise it updates the
\* content of the first entry its lookup listed and creates none; the entry
\* holds the file's content under the name file.path, and every other file
\* entry is as it was.
C28_RenameFallsBackToSyncFile ==
    RenameFellBack =>
        LET p == vault[last.file].path
            E == NamedIn(last.before, p, last.ns)
            d == last.did[p]
        IN
        /\ last.calls["rename"] = 0 /\ last.calls["delete"] = 0
        /\ last.calls["lookup"] = 2
        /\ last.attempted = {last.file}
        /\ d.content = vault[last.file].content
        /\ IF E = {}
           THEN /\ d.act = "create" /\ last.before[d.id].kind = "none"
                /\ last.calls["create"] = 1 /\ last.calls["update"] = 0
                /\ NamedIn(drive, p, last.ns) = {d.id}
           ELSE /\ d.act = "update" /\ d.id \in E /\ d.id = last.target
                /\ last.calls["create"] = 0 /\ last.calls["update"] = 1
                /\ NamedIn(drive, p, last.ns) = E
        /\ drive[d.id].kind = "file" /\ drive[d.id].name = p
        /\ drive[d.id].content = d.content
        /\ \A i \in Ids \ {d.id} : last.before[i].kind = "file" => drive[i] = last.before[i]

C28_Witness ==
    /\ RenameFellBack
    /\ last.did[vault[last.file].path].act = "create"
    /\ NamedIn(last.before, vault[last.file].path, last.ns) = {}


\* a handler (syncFile, handleFileRename or handleFileDelete) completed last,
\* undisturbed, and its last lookup listed more than one entry
ManyListed ==
    /\ Quiet /\ Undisturbed(last)
    /\ last.op \in {"syncFile", "rename", "delete"}
    /\ last.matched >= 2

\* the name that lookup asked for
LookedUp(o) == IF OldFound(o) THEN o.oldPath ELSE o.fileName

\* C29: when the lookup of a handler lists several entries of one name under
\* one parent, the handler acts on the first entry listed and on no other:
\* syncFile (also as the fallback of handleFileRename) updates its content and
\* creates nothing, handleFileRename renames it and pushes the content to it,
\* handleFileDelete deletes it; every other entry is as it was.
C29_FirstListedOnly ==
    ManyListed =>
        LET M == NamedIn(last.before, LookedUp(last), last.ns)
            g == last.target
        IN
        /\ Cardinality(M) = last.matched /\ g \in M
        /\ \A i \in Ids \ {g} : drive[i] = last.before[i]
        /\ last.calls["create"] = 0
        /\ last.calls["update"] + last.calls["rename"] + last.calls["delete"]
              = IF OldFound(last) THEN 2 ELSE 1
        /\ CASE last.op = "delete" ->
                   last.calls["delete"] = 1 /\ drive[g].kind = "gone"
             [] OldFound(last) ->
                   /\ last.calls["rename"] = 1 /\ last.calls["update"] = 1
                   /\ drive[g] = [last.before[g] EXCEPT
                                     !.name = vault[last.file].path,
                                     !.content = vault[last.file].content]
             [] OTHER ->
                   /\ last.calls["update"] = 1
                   /\ last.did[last.fileName].act = "update"
                   /\ last.did[last.fileName].id = g
                   /\ drive[g] = [last.before[g] EXCEPT
                                     !.content = vault[last.file].content]

C29_Witness ==
    /\ ManyListed /\ last.op = "syncFile"
    /\ last.did[last.fileName].act = "update"
    /\ \E i \in NamedIn(last.before, last.fileName, last.ns) \ {last.target} :
          drive[i] = last.before[i] /\ drive[i].content # drive[last.target].content


\* the calls a pass has made for files: the listing and the fetches of its
\* download phase, the lookups and the uploads of its calls of syncFile
PerFileCalls(k) ==
    k.calls["listChildren"] + k.calls["download"] + k.calls["lookup"]
        + k.calls["update"] + k.calls["create"]

\* C30: within one pass of syncVault the steps are ordered. While the listing
\* or the create of the container is in flight, it is the resolution of the
\* pass itself and the pass has made no call for a file yet; while the download
\* phase is in flight no syncFile of the pass has begun; once syncFile runs the
\* download phase has nothing left to do; and the pass lists and creates the
\* container at most once, never from one of its calls of syncFile.
C30_PassIsOrdered ==
    \A t \in Tasks :
        LET k == tasks[t] IN
        k.op = "syncVault" =>
            /\ k.stage \in {"ensureList", "ensureCreate"} =>
                  /\ k.fn = "syncVault"
                  /\ PerFileCalls(k) = 0
                  /\ k.attempted = {} /\ k.downloaded = {}
            /\ k.stage \in {"downloadList", "downloadFetch"} =>
                  /\ k.fn = "syncVault"
                  /\ k.attempted = {}
                  /\ k.calls["lookup"] + k.calls["update"] + k.calls["create"] = 0
            /\ k.fn = "syncFile" =>
                  /\ k.listing = <<>>
                  /\ k.stage \in {"lookup", "update", "create"}
            /\ k.calls["listFolders"] <= 1 /\ k.calls["createFolder"] <= 1


\* C31: a download answered 401 is followed by one refresh and one retry of
\* the download: a call of downloadFile that ended and whose first send was
\* answered 401 made exactly one refresh and sent its request exactly twice.
C31_DownloadRetriesOn401 ==
    \A c \in EndedCalls :
        (c.stage = "downloadFetch" /\ c.statuses # <<>> /\ c.statuses[1] = Unauthorized)
            => c.refreshes = 1 /\ Len(c.toks) = 2


\* the local files that had no entry of their name in the pass's namespace
\* when the pass started
LocalOnly(o) ==
    {f \in Files : o.vaultBefore[f].exists
                   /\ NamedIn(o.before, o.vaultBefore[f].path, o.ns) = {}}

\* C32: a pass of syncVault only adds or overwrites. It sends no delete and no
\* rename; a step of the pass leaves every file the vault has as it is and
\* every entry of the drive in place, under its name and its parent; and when
\* the pass completes against a reliable remote, undisturbed, every entry of
\* its namespace that had no local file has a local file of its name, and
\* every local file that had no entry has an entry of its path with its content.
C32_PassOnlyAdds ==
    [][\A t \in Tasks :
          /\ tasks'[t].op = "syncVault" =>
                /\ tasks'[t].req.kind \notin {"delete", "rename"}
                /\ tasks'[t].calls["delete"] = 0 /\ tasks'[t].calls["rename"] = 0
          /\ tasks[t].op = "syncVault" /\ Stepped(t) =>
                /\ \A f \in Files : vault[f].exists => vault'[f] = vault[f]
                /\ \A i \in Ids : drive[i].kind # "none" =>
                      /\ drive'[i].kind = drive[i].kind
                      /\ drive'[i].name = drive[i].name
                      /\ drive'[i].parent = drive[i].parent
          /\ PassEnds(t) =>
                /\ last'.calls["delete"] = 0 /\ last'.calls["rename"] = 0
                /\ \A i \in RemoteOnly(last') :
                      \E f \in Files : vault'[f].exists
                                       /\ vault'[f].path = last'.before[i].name
                /\ \A f \in LocalOnly(last') :
                      \E i \in NamedIn(drive', vault'[f].path, last'.ns) :
                          drive'[i].content = vault'[f].content]_vars

C32_Witness ==
    /\ Quiet /\ last.op = "syncVault" /\ Undisturbed(last)
    /\ \E i \in RemoteOnly(last) :
          /\ last.before[i].name \in last.downloaded
          /\ \E f \in Files : vault[f].exists /\ vault[f].path = last.before[i].name
    /\ \E f \in LocalOnly(last) : last.did[vault[f].path].act = "create"


\* C33: once the plugin has loaded and no handler of the settings tab awaits
\* its saveSettings(), a timer is active exactly when the setting autoSync is
\* true, after any sequence of switches of auto sync and changes of the interval.
C33_TimerIffAutoSync ==
    (loaded /\ pending = {}) => ((timers # {}) <=> settings.autoSync)


\* a step in which the vault's modify, rename or delete event found no handler to run
EventDropped == changes' = changes + 1

\* C34: while no access token is held, no step starts a pass or a handler (a
\* trigger of syncVault returns at its first line, an event of the vault is
\* not handled), so no request and no refresh is sent for it; the step of an
\* event changes the vault alone: the token, the cached folder, the settings,
\* the timers, the drive and every task's request are as before, and nothing
\* is recorded for a later pass.
C34_NoTokenNoRequest ==
    [][accessToken = Null =>
          /\ \A t \in Tasks :
                (tasks[t].op = "idle" /\ tasks'[t].op # "idle")
                    => tasks'[t].op \in {"init", "auth"}
          /\ EventDropped =>
                /\ accessToken' = Null /\ issued' = issued
                /\ visibleFolderId' = visibleFolderId
                /\ settings' = settings /\ saved' = saved
                /\ timers' = timers /\ syncInterval' = syncInterval
                /\ drive' = drive
                /\ ops' = ops /\ prev' = prev /\ last' = last
                /\ \A t \in Tasks :
                      /\ tasks'[t].op = tasks[t].op /\ tasks'[t].req = tasks[t].req
                      /\ tasks'[t].wait = tasks[t].wait
                      /\ tasks'[t].calls = tasks[t].calls
                      /\ tasks'[t].queue = tasks[t].queue]_vars

C34_Witness ==
    /\ loaded /\ accessToken = Null /\ settings.syncOnSave
    /\ changes = 1 /\ ops = 0 /\ Quiet
    \* the one change was a modify: every file is there, one with a new content
    /\ \A f \in Files : vault[f].exists
    /\ \E f \in Files : vault[f].content # 1

====
